---------------------------- MODULE Spec2Model ----------------------------
(* A model of the declare-objects command line tool: the naming-style      *)
(* classifier, the name transcoder and the top-level pipeline that         *)
(* reconciles discovered Durable Object classes with the wrangler config   *)
(* and patches the config after confirmation.                              *)
(* Strings are sequences of one-character strings.                         *)
EXTENDS Integers, Sequences, FiniteSets, TLC

VARIABLES pc, config, defaultType, itemsExtendingDurableObject, keyIdx,
          namingStyle, selectAnswer, confirmed, exitStatus, thrown,
          reported, patchCalls, arg, argStyle, ret

vars == <<pc, config, defaultType, itemsExtendingDurableObject, keyIdx,
          namingStyle, selectAnswer, confirmed, exitStatus, thrown,
          reported, patchCalls, arg, argStyle, ret>>

-----------------------------------------------------------------------------
(* Characters and strings                                                  *)

UpperLetters == <<"A","B","C","D","E","F","G","H","I","J","K","L","M",
                  "N","O","P","Q","R","S","T","U","V","W","X","Y","Z">>
LowerLetters == <<"a","b","c","d","e","f","g","h","i","j","k","l","m",
                  "n","o","p","q","r","s","t","u","v","w","x","y","z">>

Range(f) == {f[i] : i \in DOMAIN f}

Upper == Range(UpperLetters)
Lower == Range(LowerLetters)
Digit == {"0","1","2","3","4","5","6","7","8","9"}

IndexIn(c, letters) == CHOOSE i \in DOMAIN letters : letters[i] = c

\* String.prototype.toUpperCase / toLowerCase, one character at a time
toUpperCaseChar(c) == IF c \in Lower THEN UpperLetters[IndexIn(c, LowerLetters)] ELSE c
toLowerCaseChar(c) == IF c \in Upper THEN LowerLetters[IndexIn(c, UpperLetters)] ELSE c

toUpperCase(s) == [i \in DOMAIN s |-> toUpperCaseChar(s[i])]
toLowerCase(s) == [i \in DOMAIN s |-> toLowerCaseChar(s[i])]

\* The strings over an alphabet of length at most n
StringsUpTo(alphabet, n) == UNION {[1..k -> alphabet] : k \in 0..n}

\* Array.prototype.join
RECURSIVE join(_, _)
join(parts, sep) ==
  IF Len(parts) = 0 THEN <<>>
  ELSE IF Len(parts) = 1 THEN parts[1]
  ELSE parts[1] \o sep \o join(Tail(parts), sep)

\* str.replace(/([A-Z])/g, " $1"): a space before every uppercase letter
RECURSIVE ReplaceUpper(_)
ReplaceUpper(s) ==
  IF s = <<>> THEN <<>>
  ELSE (IF Head(s) \in Upper THEN <<" ", Head(s)>> ELSE <<Head(s)>>)
       \o ReplaceUpper(Tail(s))

\* String.prototype.trim (the only whitespace of the model is the space)
RECURSIVE TrimStart(_)
TrimStart(s) ==
  IF s # <<>> /\ Head(s) = " " THEN TrimStart(Tail(s)) ELSE s

RECURSIVE TrimEnd(_)
TrimEnd(s) ==
  IF s # <<>> /\ s[Len(s)] = " " THEN TrimEnd(SubSeq(s, 1, Len(s) - 1)) ELSE s

TrimNone(s) == s

Trim(s) == TrimEnd(TrimStart(s))

\* String.prototype.split(" "): always at least one part, empty parts kept
RECURSIVE SplitFrom(_, _)
SplitFrom(s, cur) ==
  IF s = <<>> THEN <<cur>>
  ELSE IF Head(s) = " " THEN <<cur>> \o SplitFrom(Tail(s), <<>>)
  ELSE SplitFrom(Tail(s), Append(cur, Head(s)))

Split(s) == SplitFrom(s, <<>>)

-----------------------------------------------------------------------------
(* The recognition patterns of getNamingStyleFromNamedItems                *)

AlphaNum == Upper \cup Lower \cup Digit

\* ^[first][a-zA-Z0-9]*$
MatchesSimple(s, first) ==
  /\ Len(s) >= 1
  /\ s[1] \in first
  /\ \A i \in 2..Len(s) : s[i] \in AlphaNum

\* [cls]*(_[cls]+)*$ from position i
RECURSIVE SnakeRest(_, _, _)
SnakeRest(s, i, cls) ==
  IF i > Len(s) THEN TRUE
  ELSE IF s[i] \in cls THEN SnakeRest(s, i + 1, cls)
  ELSE IF s[i] = "_"
       THEN i + 1 <= Len(s) /\ s[i + 1] \in cls /\ SnakeRest(s, i + 2, cls)
  ELSE FALSE

\* /^[a-z][a-zA-Z0-9]*$/
MatchesCamel(s) == MatchesSimple(s, Lower)
\* /^[A-Z][a-zA-Z0-9]*$/
MatchesPascal(s) == MatchesSimple(s, Upper)
\* /^[A-Z][A-Z0-9]*(_[A-Z0-9]+)*$/
MatchesUpperSnake(s) ==
  Len(s) >= 1 /\ s[1] \in Upper /\ SnakeRest(s, 2, Upper \cup Digit)
\* /^[a-z][a-z0-9]*(_[a-z0-9]+)*$/
MatchesLowerSnake(s) ==
  Len(s) >= 1 /\ s[1] \in Lower /\ SnakeRest(s, 2, Lower \cup Digit)

Styles == {"camel", "pascal", "upper_snake", "lower_snake"}
Undefined == "undefined"

Matches(s, style) ==
  CASE style = "camel" -> MatchesCamel(s)
    [] style = "pascal" -> MatchesPascal(s)
    [] style = "upper_snake" -> MatchesUpperSnake(s)
    [] style = "lower_snake" -> MatchesLowerSnake(s)

\* items.every((item) => pattern.test(item.binding))
Every(items, style) == \A i \in DOMAIN items : Matches(items[i], style)

getNamingStyleSnakeFirst(items) ==
  IF Len(items) = 0 THEN Undefined
  ELSE IF Every(items, "upper_snake") THEN "upper_snake"
  ELSE IF Every(items, "lower_snake") THEN "lower_snake"
  ELSE IF Every(items, "camel") THEN "camel"
  ELSE IF Every(items, "pascal") THEN "pascal"
  ELSE Undefined

getNamingStyleFromNamedItems(items) ==
  IF Len(items) = 0 THEN Undefined
  ELSE IF Every(items, "camel") THEN "camel"
  ELSE IF Every(items, "pascal") THEN "pascal"
  ELSE IF Every(items, "upper_snake") THEN "upper_snake"
  ELSE IF Every(items, "lower_snake") THEN "lower_snake"
  ELSE Undefined

-----------------------------------------------------------------------------
(* The name transcoder                                                     *)

styleParts(nameAsPascalCase) == Split(Trim(ReplaceUpper(nameAsPascalCase)))

styleNames(nameAsPascalCase, style) ==
  IF style = "pascal" THEN nameAsPascalCase
  ELSE LET parts == styleParts(nameAsPascalCase) IN
    IF style = "camel"
      THEN toLowerCase(parts[1]) \o join(Tail(parts), <<>>)
    ELSE IF style = "upper_snake"
      THEN join([i \in DOMAIN parts |-> toUpperCase(parts[i])], <<"_">>)
    ELSE IF style = "lower_snake"
      THEN join([i \in DOMAIN parts |-> toLowerCase(parts[i])], <<"_">>)
    ELSE nameAsPascalCase

-----------------------------------------------------------------------------
(* Names used as inputs                                                    *)

Counter   == <<"C","o","u","n","t","e","r">>
ChatRoom  == <<"C","h","a","t","R","o","o","m">>
Db2       == <<"D","b","2">>
CHAT_ROOM == <<"C","H","A","T","_","R","O","O","M">>
KV_ONE    == <<"K","V","_","O","N","E">>
KV_TWO    == <<"K","V","_","T","W","O">>
myDb      == <<"m","y","D","b">>
my_index  == <<"m","y","_","i","n","d","e","x">>
kv_dash   == <<"k","v","-","1">>

\* Bounds of the inputs
MaxUnion == 2
MaxExisting == 2
MaxCategoryItems == 2
MaxItems == 2
MaxBindingLen == 2
MaxNameLen == 4

\* The sequences of distinct elements of S of length lo..hi
DistinctSeqs(S, lo, hi) ==
  UNION {{q \in [1..k -> S] : \A i, j \in 1..k : i # j => q[i] # q[j]} : k \in lo..hi}

ClassPool == {Counter, ChatRoom, Db2}

ExistingPool == {[name |-> Counter, class_name |-> Counter],
                 [name |-> ChatRoom, class_name |-> ChatRoom],
                 [name |-> CHAT_ROOM, class_name |-> ChatRoom]}

Absent == [present |-> FALSE, items |-> <<>>]
Present(items) == [present |-> TRUE, items |-> items]

\* The type of the resolver file's default export: a union of string
\* literals, one string literal, or anything else (never, any, ...)
DefaultTypes ==
  {[kind |-> "other", types |-> <<>>]}
  \cup {[kind |-> "literal", types |-> <<n>>] : n \in ClassPool}
  \cup {[kind |-> "union", types |-> q] : q \in DistinctSeqs(ClassPool, 2, MaxUnion)}

Configs ==
  [durable_objects : DistinctSeqs(ExistingPool, 0, MaxExisting),
   kv_namespaces : {Absent, Present(<<KV_ONE, KV_TWO>>)},
   services : {Absent, Present(<<>>)},
   d1_databases : {Absent, Present(<<myDb>>)},
   vectorize : {Absent, Present(<<my_index>>)},
   hasMain : BOOLEAN,
   hasConfigPath : BOOLEAN]

Timestamps == {<<"t","1">>, <<"t","2">>}

-----------------------------------------------------------------------------
(* Process exit                                                            *)

NoError == "none"
ErrNoTypeScript == "TypeScript must be installed to use this command"
ErrNoMain == "Worker main was not found"
ErrNoResolver == "Resolver file was not found"
ErrNoSymbol == "resolver file symbol was not found"
ErrNoDefault == "Default export was not found"
ErrNoDurableObjects == "No Durable Objects found in your Worker"
ErrNoConfigPath == "No config path found"

\* An uncaught error ends the process with exit status 1
bail(message) ==
  /\ pc' = "exited"
  /\ thrown' = message
  /\ exitStatus' = "1"

\* process.exit(code)
exit(code) ==
  /\ pc' = "exited"
  /\ exitStatus' = code
  /\ UNCHANGED thrown

Cancel == "cancel"

assertNotCancelledNever(value) == TRUE

\* TRUE when the assertion passes; otherwise the process exits with 1
assertNotCancelled(value) == value # Cancel

-----------------------------------------------------------------------------
(* The pipeline                                                            *)

NoItems == [defined |-> FALSE, value |-> <<>>]
Items(q) == [defined |-> TRUE, value |-> q]

Quote == "\""
typeToString(name) == <<Quote>> \o name \o <<Quote>>
replaceAllQuotes(s) == SelectSeq(s, LAMBDA ch : ch # Quote)

existingDurableObjects ==
  [i \in DOMAIN config.durable_objects |-> config.durable_objects[i].name]

Includes(q, x) == \E i \in DOMAIN q : q[i] = x

harnessIdle == arg = <<>> /\ argStyle = "pascal" /\ ret = <<>>

pipelineStart ==
  /\ defaultType \in DefaultTypes
  /\ itemsExtendingDurableObject = NoItems
  /\ keyIdx = 1
  /\ namingStyle = Undefined
  /\ selectAnswer = "none"
  /\ confirmed = "none"
  /\ exitStatus = "none"
  /\ thrown = NoError
  /\ reported = <<>>
  /\ patchCalls = <<>>

Init ==
  /\ pc = "createTypescript"
  /\ config \in Configs
  /\ pipelineStart
  /\ harnessIdle

CreateTypescript ==
  /\ pc = "createTypescript"
  /\ \E tsFound \in BOOLEAN :
       IF ~tsFound THEN bail(ErrNoTypeScript)
       ELSE IF ~config.hasMain THEN bail(ErrNoMain)
       ELSE pc' = "locate" /\ UNCHANGED <<thrown, exitStatus>>
  /\ UNCHANGED <<config, defaultType, itemsExtendingDurableObject, keyIdx,
                 namingStyle, selectAnswer, confirmed, reported, patchCalls,
                 arg, argStyle, ret>>

LocateDefaultExport ==
  /\ pc = "locate"
  /\ \E found \in {"all", "no_resolver", "no_symbol", "no_default"} :
       IF found = "no_resolver" THEN bail(ErrNoResolver)
       ELSE IF found = "no_symbol" THEN bail(ErrNoSymbol)
       ELSE IF found = "no_default" THEN bail(ErrNoDefault)
       ELSE pc' = "extract" /\ UNCHANGED <<thrown, exitStatus>>
  /\ UNCHANGED <<config, defaultType, itemsExtendingDurableObject, keyIdx,
                 namingStyle, selectAnswer, confirmed, reported, patchCalls,
                 arg, argStyle, ret>>

ExtractCandidates ==
  /\ pc = "extract"
  /\ itemsExtendingDurableObject' =
       IF defaultType.kind = "union"
         THEN Items([i \in DOMAIN defaultType.types |->
                       replaceAllQuotes(typeToString(defaultType.types[i]))])
       ELSE IF defaultType.kind = "literal"
         THEN Items(<<replaceAllQuotes(typeToString(defaultType.types[1]))>>)
       ELSE NoItems
  /\ pc' = "filter"
  /\ UNCHANGED <<config, defaultType, keyIdx, namingStyle, selectAnswer,
                 confirmed, exitStatus, thrown, reported, patchCalls,
                 arg, argStyle, ret>>

ReconcileByClassName ==
  /\ pc = "filter"
  /\ itemsExtendingDurableObject' =
       IF itemsExtendingDurableObject.defined
         THEN Items(SelectSeq(itemsExtendingDurableObject.value,
                LAMBDA name : ~\E i \in DOMAIN config.durable_objects :
                                 config.durable_objects[i].class_name = name))
       ELSE NoItems
  /\ pc' = "report"
  /\ UNCHANGED <<config, defaultType, keyIdx, namingStyle, selectAnswer,
                 confirmed, exitStatus, thrown, reported, patchCalls,
                 arg, argStyle, ret>>

Reconcile ==
  /\ pc = "filter"
  /\ itemsExtendingDurableObject' =
       IF itemsExtendingDurableObject.defined
         THEN Items(SelectSeq(itemsExtendingDurableObject.value,
                LAMBDA name : ~Includes(existingDurableObjects, name)))
       ELSE NoItems
  /\ pc' = "report"
  /\ UNCHANGED <<config, defaultType, keyIdx, namingStyle, selectAnswer,
                 confirmed, exitStatus, thrown, reported, patchCalls,
                 arg, argStyle, ret>>

ReportFindingsNoThrow ==
  /\ pc = "report"
  /\ IF ~itemsExtendingDurableObject.defined
       THEN reported' = Append(reported, 0) /\ exit("0")
       ELSE /\ reported' = Append(reported, Len(itemsExtendingDurableObject.value))
            /\ pc' = "style"
            /\ UNCHANGED <<thrown, exitStatus>>
  /\ UNCHANGED <<config, defaultType, itemsExtendingDurableObject, keyIdx,
                 namingStyle, selectAnswer, confirmed, patchCalls,
                 arg, argStyle, ret>>

ReportFindings ==
  /\ pc = "report"
  /\ IF ~itemsExtendingDurableObject.defined
       THEN bail(ErrNoDurableObjects) /\ UNCHANGED reported
       ELSE /\ reported' = Append(reported, Len(itemsExtendingDurableObject.value))
            /\ pc' = "style"
            /\ UNCHANGED <<thrown, exitStatus>>
  /\ UNCHANGED <<config, defaultType, itemsExtendingDurableObject, keyIdx,
                 namingStyle, selectAnswer, confirmed, patchCalls,
                 arg, argStyle, ret>>

keysReversed == <<"vectorize", "d1_databases", "services", "kv_namespaces">>

keys == <<"kv_namespaces", "services", "d1_databases", "vectorize">>

\* One iteration of the loop over keys in getNamingStyleFromOtherBindings;
\* after the last key the select prompt is shown
ExamineCategory ==
  /\ pc = "style"
  /\ IF keyIdx > Len(keys)
       THEN pc' = "select" /\ UNCHANGED <<keyIdx, namingStyle>>
       ELSE LET value == config[keys[keyIdx]] IN
         IF ~value.present
           THEN keyIdx' = keyIdx + 1 /\ UNCHANGED <<pc, namingStyle>>
         ELSE LET maybeStyle == getNamingStyleFromNamedItems(value.items) IN
           IF maybeStyle # Undefined
             THEN namingStyle' = maybeStyle /\ pc' = "confirm" /\ UNCHANGED keyIdx
             ELSE keyIdx' = keyIdx + 1 /\ UNCHANGED <<pc, namingStyle>>
  /\ UNCHANGED <<config, defaultType, itemsExtendingDurableObject,
                 selectAnswer, confirmed, exitStatus, thrown, reported,
                 patchCalls, arg, argStyle, ret>>

\* The select prompt returns a style or the cancellation symbol
SelectPrompt ==
  /\ pc = "select"
  /\ \E style \in Styles \cup {Cancel} :
       /\ selectAnswer' = style
       /\ IF assertNotCancelled(style)
            THEN namingStyle' = style /\ pc' = "confirm"
                 /\ UNCHANGED <<thrown, exitStatus>>
            ELSE exit("1") /\ UNCHANGED namingStyle
  /\ UNCHANGED <<config, defaultType, itemsExtendingDurableObject, keyIdx,
                 confirmed, reported, patchCalls, arg, argStyle, ret>>

ConfirmPromptIgnoringAnswer ==
  /\ pc = "confirm"
  /\ \E answer \in {"true", "false", Cancel} :
       /\ confirmed' = answer
       /\ IF ~assertNotCancelled(answer) THEN exit("1")
          ELSE pc' = "patch" /\ UNCHANGED <<thrown, exitStatus>>
  /\ UNCHANGED <<config, defaultType, itemsExtendingDurableObject, keyIdx,
                 namingStyle, selectAnswer, reported, patchCalls,
                 arg, argStyle, ret>>

\* The confirm prompt returns true, false or the cancellation symbol
ConfirmPrompt ==
  /\ pc = "confirm"
  /\ \E answer \in {"true", "false", Cancel} :
       /\ confirmed' = answer
       /\ IF ~assertNotCancelled(answer) THEN exit("1")
          ELSE IF answer = "false" THEN exit("0")
          ELSE pc' = "patch" /\ UNCHANGED <<thrown, exitStatus>>
  /\ UNCHANGED <<config, defaultType, itemsExtendingDurableObject, keyIdx,
                 namingStyle, selectAnswer, reported, patchCalls,
                 arg, argStyle, ret>>

DeltaFirstUnstyled(items, style, now) ==
  [durable_objects |->
     [bindings |-> [i \in DOMAIN items |->
                      [name |-> IF i = 1 THEN items[i]
                                ELSE styleNames(items[i], style),
                       class_name |-> items[i]]]],
   migrations |->
     <<[tag |-> now \o <<"-">> \o join(items, <<"-">>),
        new_sqlite_classes |-> items]>>]

\* The argument of patchConfig
Delta(items, style, now) ==
  [durable_objects |->
     [bindings |-> [i \in DOMAIN items |->
                      [name |-> styleNames(items[i], style),
                       class_name |-> items[i]]]],
   migrations |->
     <<[tag |-> now \o <<"-">> \o join(items, <<"-">>),
        new_sqlite_classes |-> items]>>]

PatchConfig ==
  /\ pc = "patch"
  /\ IF ~config.hasConfigPath
       THEN bail(ErrNoConfigPath) /\ UNCHANGED patchCalls
       ELSE /\ \E now \in Timestamps :
                 patchCalls' = Append(patchCalls,
                   Delta(itemsExtendingDurableObject.value, namingStyle, now))
            /\ exit("0")
  /\ UNCHANGED <<config, defaultType, itemsExtendingDurableObject, keyIdx,
                 namingStyle, selectAnswer, confirmed, reported,
                 arg, argStyle, ret>>

Next ==
  \/ CreateTypescript
  \/ LocateDefaultExport
  \/ ExtractCandidates
  \/ Reconcile
  \/ ReportFindings
  \/ ExamineCategory
  \/ SelectPrompt
  \/ ConfirmPrompt
  \/ PatchConfig

Spec == Init /\ [][Next]_vars

-----------------------------------------------------------------------------
(* getNamingStyleFromOtherBindings on its own: every shape of the four     *)
(* binding categories                                                      *)

StylePool == {KV_ONE, myDb}

Categories ==
  {Absent} \cup {Present(q) : q \in UNION {[1..k -> StylePool] : k \in 0..MaxCategoryItems}}

InitStyle ==
  /\ pc = "style"
  /\ config \in [durable_objects : {<<>>},
                 kv_namespaces : Categories,
                 services : Categories,
                 d1_databases : Categories,
                 vectorize : Categories,
                 hasMain : {TRUE},
                 hasConfigPath : {TRUE}]
  /\ defaultType = [kind |-> "literal", types |-> <<Counter>>]
  /\ itemsExtendingDurableObject = Items(<<Counter>>)
  /\ keyIdx = 1
  /\ namingStyle = Undefined
  /\ selectAnswer = "none"
  /\ confirmed = "none"
  /\ exitStatus = "none"
  /\ thrown = NoError
  /\ reported = <<1>>
  /\ patchCalls = <<>>
  /\ harnessIdle

NextStyle == ExamineCategory \/ SelectPrompt

SpecStyle == InitStyle /\ [][NextStyle]_vars

-----------------------------------------------------------------------------
(* The classifier and the transcoder on their own                          *)

IdleConfig ==
  [durable_objects |-> <<>>, kv_namespaces |-> Absent, services |-> Absent,
   d1_databases |-> Absent, vectorize |-> Absent,
   hasMain |-> TRUE, hasConfigPath |-> TRUE]

pipelineIdle ==
  /\ config = IdleConfig
  /\ defaultType = [kind |-> "other", types |-> <<>>]
  /\ itemsExtendingDurableObject = NoItems
  /\ keyIdx = 1
  /\ namingStyle = Undefined
  /\ selectAnswer = "none"
  /\ confirmed = "none"
  /\ exitStatus = "none"
  /\ thrown = NoError
  /\ reported = <<>>
  /\ patchCalls = <<>>

pipelineVars == <<config, defaultType, itemsExtendingDurableObject, keyIdx,
                  namingStyle, selectAnswer, confirmed, exitStatus, thrown,
                  reported, patchCalls>>

BindingAlphabet == {"A", "a", "1", "_"}

\* Binding names: every short string, and some longer names
BindingNames ==
  StringsUpTo(BindingAlphabet, MaxBindingLen)
    \cup {KV_ONE, KV_TWO, my_index, kv_dash}

InitClassify ==
  /\ pc = "call"
  /\ arg \in UNION {[1..k -> BindingNames] : k \in 0..MaxItems}
  /\ argStyle = "pascal"
  /\ ret = Undefined
  /\ pipelineIdle

CallClassifier ==
  /\ pc = "call"
  /\ ret' = getNamingStyleFromNamedItems(arg)
  /\ pc' = "returned"
  /\ UNCHANGED <<arg, argStyle>>
  /\ UNCHANGED pipelineVars

SpecClassify == InitClassify /\ [][CallClassifier]_vars

NameAlphabet == {"A", "B", "a", "1", "_"}

InitTranscode ==
  /\ pc = "call"
  /\ arg \in StringsUpTo(NameAlphabet, MaxNameLen)
  /\ argStyle \in Styles
  /\ ret = <<>>
  /\ pipelineIdle

CallStyleNames ==
  /\ pc = "call"
  /\ ret' = styleNames(arg, argStyle)
  /\ pc' = "returned"
  /\ UNCHANGED <<arg, argStyle>>
  /\ UNCHANGED pipelineVars

SpecTranscode == InitTranscode /\ [][CallStyleNames]_vars

-----------------------------------------------------------------------------
(* Properties                                                              *)

\* The names the resolver discovered and the names already registered
Discovered == defaultType.types
RegisteredNames == {config.durable_objects[i].name : i \in DOMAIN config.durable_objects}
NetNew == SelectSeq(Discovered, LAMBDA n : n \notin RegisteredNames)

\* The filter of lines 285-287 has run
Reconciled == pc = "report" \/ reported # <<>>

SetupErrors == {ErrNoTypeScript, ErrNoMain, ErrNoResolver, ErrNoSymbol, ErrNoDefault}

\* C1: after reconciliation the net-new list is exactly the discovered names
\* that are not registered names, in the order of discovery; discovered
\* Counter, ChatRoom with Counter registered gives exactly ChatRoom.
C1_Reconciliation ==
  (Reconciled /\ defaultType.kind # "other") =>
    /\ itemsExtendingDurableObject.defined
    /\ itemsExtendingDurableObject.value = NetNew
    /\ \A n \in ClassPool :
         Includes(itemsExtendingDurableObject.value, n)
           <=> (Includes(Discovered, n) /\ n \notin RegisteredNames)
    /\ (Discovered = <<Counter, ChatRoom>> /\ RegisteredNames = {Counter})
         => itemsExtendingDurableObject.value = <<ChatRoom>>

C1_Witness ==
  /\ pc = "report"
  /\ Discovered = <<Counter, ChatRoom>>
  /\ RegisteredNames = {Counter}
  /\ itemsExtendingDurableObject = Items(<<ChatRoom>>)

\* C2: when candidates were discovered and all of them are registered, the
\* run reaches neither prompt and never calls patchConfig.
C2_NothingNewEndsRun ==
  (Reconciled /\ defaultType.kind # "other" /\ NetNew = <<>>) =>
    /\ pc \notin {"select", "confirm", "patch"}
    /\ selectAnswer = "none"
    /\ confirmed = "none"
    /\ patchCalls = <<>>

\* C3 as stated: when the default export's type is neither a union nor a
\* string literal, the run reports zero candidates, never calls patchConfig
\* and ends with exit status 0.
C3_NoCandidatesExitsZero ==
  (defaultType.kind = "other" /\ pc = "exited" /\ thrown \notin SetupErrors) =>
    /\ exitStatus = "0"
    /\ patchCalls = <<>>

\* C3 amended: when the default export's type is neither a union nor a
\* string literal, the run reports no count, reaches no prompt, never calls
\* patchConfig and ends by throwing "No Durable Objects found in your
\* Worker", exit status 1.
C3_NoCandidatesThrows ==
  defaultType.kind = "other" =>
    /\ pc \notin {"style", "select", "confirm", "patch"}
    /\ reported = <<>>
    /\ patchCalls = <<>>
    /\ (pc = "exited" /\ thrown \notin SetupErrors) =>
         (thrown = ErrNoDurableObjects /\ exitStatus = "1")

C3_Witness ==
  /\ defaultType.kind = "other"
  /\ pc = "exited"
  /\ thrown = ErrNoDurableObjects
  /\ exitStatus = "1"

\* C4: a cancelled prompt (select or confirm) ends the process at once with
\* exit status 1 and patchConfig is never called.
C4_CancelExits ==
  (selectAnswer = Cancel \/ confirmed = Cancel) =>
    /\ pc = "exited"
    /\ exitStatus = "1"
    /\ patchCalls = <<>>

C4_Witness ==
  /\ selectAnswer = Cancel
  /\ pc = "exited"
  /\ exitStatus = "1"

\* C5: patchConfig is called at most once, and only in a step taken after
\* the analysis finished without an error, the naming style was resolved and
\* the confirm prompt returned true; a run that threw or whose confirmation
\* was answered false has no call, and answering false exits with status 0.
C5_PatchOnceAfterConfirm ==
  /\ [](/\ Len(patchCalls) <= 1
        /\ thrown # NoError => patchCalls = <<>>
        /\ confirmed = "false" =>
             (patchCalls = <<>> /\ pc = "exited" /\ exitStatus = "0"))
  /\ [][patchCalls' # patchCalls =>
          /\ patchCalls = <<>>
          /\ Len(patchCalls') = 1
          /\ thrown = NoError
          /\ reported # <<>>
          /\ itemsExtendingDurableObject.defined
          /\ namingStyle \in Styles
          /\ confirmed = "true"]_vars

C5_Witness ==
  /\ Len(patchCalls) = 1
  /\ confirmed = "true"
  /\ pc = "exited"
  /\ exitStatus = "0"

AllMatch(items, style) ==
  Len(items) > 0 /\ \A i \in 1..Len(items) : Matches(items[i], style)

\* C6 as stated: a non-empty list whose names all match the pattern of a
\* style S classifies as S; the empty list and a list with no common style
\* are undetermined.
C6_ReturnsEveryMatchedStyle ==
  pc = "returned" =>
    /\ \A S \in Styles : AllMatch(arg, S) => ret = S
    /\ (~\E S \in Styles : AllMatch(arg, S)) => ret = Undefined

StylePriority == <<"camel", "pascal", "upper_snake", "lower_snake">>

\* C6 amended: the classifier returns the first style, in the order camel,
\* pascal, upper_snake, lower_snake, whose pattern all names of a non-empty
\* list match; the empty list and a list with no common style are
\* undetermined; KV_ONE, KV_TWO is upper_snake.
C6_ReturnsFirstMatchedStyle ==
  pc = "returned" =>
    /\ \A k \in 1..4 :
         ret = StylePriority[k] <=>
           /\ AllMatch(arg, StylePriority[k])
           /\ \A j \in 1..(k - 1) : ~AllMatch(arg, StylePriority[j])
    /\ ret = Undefined <=> ~\E S \in Styles : AllMatch(arg, S)
    /\ arg = <<KV_ONE, KV_TWO>> => ret = "upper_snake"

C6_Witness ==
  /\ pc = "returned"
  /\ arg = <<KV_ONE, KV_TWO>>
  /\ ret = "upper_snake"

\* C7: for a PascalCase input and each of the four styles, the transcoded
\* name has only letters, digits and underscores and matches the
\* classifier's pattern of that style; to pascal it is the input.
C7_StyleTotal ==
  (pc = "returned" /\ MatchesPascal(arg)) =>
    /\ \A i \in 1..Len(ret) : ret[i] \in AlphaNum \cup {"_"}
    /\ Matches(ret, argStyle)
    /\ argStyle = "pascal" => ret = arg

C7_Witness ==
  /\ pc = "returned"
  /\ arg = <<"A", "a", "B", "1">>
  /\ argStyle = "upper_snake"
  /\ ret = <<"A", "A", "_", "B", "1">>

\* C8: every delta passed to patchConfig has one binding per net-new class,
\* in order, named styleNames(class, S) for the one resolved style S, and
\* exactly one migration whose new_sqlite_classes is the net-new list.
C8_DeltaUniformStyle ==
  \A c \in 1..Len(patchCalls) :
    LET bindings == patchCalls[c].durable_objects.bindings
        migrations == patchCalls[c].migrations IN
    /\ namingStyle \in Styles
    /\ Len(bindings) = Len(NetNew)
    /\ \A i \in 1..Len(NetNew) :
         /\ bindings[i].class_name = NetNew[i]
         /\ bindings[i].name = styleNames(NetNew[i], namingStyle)
    /\ Len(migrations) = 1
    /\ migrations[1].new_sqlite_classes = NetNew

C8_Witness ==
  /\ Len(patchCalls) = 1
  /\ namingStyle = "upper_snake"
  /\ Len(patchCalls[1].durable_objects.bindings) = 2
  /\ patchCalls[1].durable_objects.bindings[2].name = CHAT_ROOM

\* C9: no binding name placed in a delta is the name of a Durable Object
\* binding already registered in the configuration.
C9_NoRegisteredNameReproposed ==
  \A c \in 1..Len(patchCalls) :
    \A i \in 1..Len(patchCalls[c].durable_objects.bindings) :
      patchCalls[c].durable_objects.bindings[i].name \notin RegisteredNames

\* The four categories in the order kv_namespaces, services, d1_databases,
\* vectorize, and whether one classifies to a style
CategoryAt(k) ==
  CASE k = 1 -> config.kv_namespaces
    [] k = 2 -> config.services
    [] k = 3 -> config.d1_databases
    [] k = 4 -> config.vectorize

Classifies(k) ==
  /\ CategoryAt(k).present
  /\ CategoryAt(k).items # <<>>
  /\ \E S \in Styles : AllMatch(CategoryAt(k).items, S)

\* C10: the categories are examined in the order kv_namespaces, services,
\* d1_databases, vectorize; absent, empty and unclassifiable categories are
\* skipped; the style is that of the first category that classifies; the
\* select prompt is reached exactly when no category classifies, and then
\* the style is the operator's answer.
C10_FirstCategoryWins ==
  /\ pc = "style" => \A k \in 1..(keyIdx - 1) : ~Classifies(k)
  /\ (pc = "select" \/ selectAnswer # "none") => \A k \in 1..4 : ~Classifies(k)
  /\ (pc # "style" /\ \A k \in 1..4 : ~Classifies(k)) =>
       (pc = "select" \/ selectAnswer # "none")
  /\ (pc = "confirm" /\ selectAnswer = "none") =>
       \E k \in 1..4 :
         /\ Classifies(k)
         /\ \A j \in 1..(k - 1) : ~Classifies(j)
         /\ namingStyle = getNamingStyleFromNamedItems(CategoryAt(k).items)
  /\ (pc = "confirm" /\ selectAnswer # "none") => namingStyle = selectAnswer

C10_Witness ==
  /\ pc = "confirm"
  /\ selectAnswer = "none"
  /\ ~config.kv_namespaces.present
  /\ config.services = Present(<<KV_ONE, myDb>>)
  /\ config.d1_databases = Present(<<myDb>>)
  /\ config.vectorize = Present(<<KV_ONE>>)
  /\ namingStyle = "camel"

=============================================================================
